---- MODULE Spec2Model ----
(***************************************************************************)
(* Model of the ShelfLife PDF library: the IndexedDB persistence layer     *)
(* (src/services/db.ts) and the React handlers that call it (src/App.tsx,  *)
(* src/components/Reader.tsx).                                             *)
(*                                                                         *)
(* One step of the model is one task of the browser's event loop: a user   *)
(* event or an IndexedDB request event, together with every microtask      *)
(* (promise continuation) it triggers.  IndexedDB transactions whose       *)
(* scopes overlap run one at a time, in the order they were created; this  *)
(* is the queue txQ.                                                       *)
(***************************************************************************)
EXTENDS Integers, Sequences, FiniteSets, TLC

(* ------------------------------ bounds -------------------------------- *)
MaxDocs == 2
MaxCats == 1
MaxTasks == 2
MaxTime == 2
MaxBatch == 2
MaxPages == 2
MaxShelf == 3
MaxShelfCats == 2
MaxName == 2

(* ------------------------------ values -------------------------------- *)
\* uuidv4() ids: documents are numbered so that the key order of the object
\* store (the order a cursor walks) is defined.
DocIds == 1..MaxDocs
CatIds == {"c" \o ToString(i) : i \in 1..MaxCats}
Tasks == 1..MaxTasks

\* categoryId: string | null
NullCat == "null"
\* lastReadAt: number | null
NullTime == 0
\* no document (activePdfId: string | null, an unset cursor)
NoDoc == 0

\* The File objects a user can pick.
PdfA == [name |-> "a.pdf", type |-> "application/pdf", size |-> 3, bytes |-> "A"]
TxtF == [name |-> "n.txt", type |-> "text/plain", size |-> 1, bytes |-> "T"]
InputFiles == {PdfA, TxtF}
Batches == UNION {[1..n -> InputFiles] : n \in 1..MaxBatch}

\* Collection names are sequences of characters; what a user can type.
Chars == {" ", "W"}
NameInputs == UNION {[1..n -> Chars] : n \in 0..MaxName}
WorkName == <<"W">>

\* A shorter PDF, for the scenario with two books.
PdfB == [name |-> "b.pdf", type |-> "application/pdf", size |-> 1, bytes |-> "B"]

\* What pdf.js reports as numPages for a payload.
PagesOf(blob) ==
  IF blob.type # "application/pdf" THEN 0
  ELSE IF blob = PdfB THEN 1
  ELSE MaxPages

STORES == {"files", "categories"}
SCHEMA == {"files", "by-category", "by-last-read", "categories"}

VARIABLES
  \* --- src/services/db.ts and the IndexedDB engine behind it
  dbPromise,      \* "null" | "pending" | "open" | "rejected"
  openCalls,      \* number of openDB() calls made
  upgrades,       \* number of times the upgrade callback has run
  schema,         \* object stores and indexes that exist
  files,          \* object store 'files': id -> PdfFile
  categories,     \* object store 'categories': id -> Category
  txQ,            \* per object store, the live transactions in creation order
  undo,           \* <<contents of 'files' when the running sweep began>>, for abort
  usedDocs,       \* ids uuidv4() has handed out for documents
  usedCats,       \* ids uuidv4() has handed out for collections
  now,            \* what Date.now() returned last
  \* --- in-flight async calls
  tasks,
  ret,            \* the store call that returned in this step, if any
  \* --- src/App.tsx state
  uiFiles, uiCategories, activeCategoryId, loading, uploading, readerFile,
  \* --- src/components/Reader.tsx state
  activePage, numPages, timer, docLoaded,
  \* --- src/components/Sidebar.tsx state
  newCategoryName \* the text in the new-collection box, a sequence of characters

vars == <<dbPromise, openCalls, upgrades, schema, files, categories, txQ, undo,
          usedDocs, usedCats, now, tasks, ret, uiFiles, uiCategories,
          activeCategoryId, loading, uploading, readerFile, activePage,
          numPages, timer, docLoaded, newCategoryName>>

dbVars == <<dbPromise, openCalls, upgrades, schema>>
storeVars == <<files, categories, undo>>
uiVars == <<uiFiles, uiCategories, activeCategoryId, loading, uploading>>
readerVars == <<readerFile, activePage, numPages, timer, docLoaded>>

(* ------------------------- small helpers ------------------------------ *)
Put(store, key, rec) ==
  [k \in DOMAIN store \cup {key} |-> IF k = key THEN rec ELSE store[k]]

Del(store, key) == [k \in DOMAIN store \ {key} |-> store[k]]

Enq(q, s, t) == [q EXCEPT ![s] = Append(@, t)]

Deq(q, s, t) == [q EXCEPT ![s] = SelectSeq(@, LAMBDA x : x # t)]

Metadata_WithBlob(f) == f

\* const { blob, ...metadata } = record
Metadata(f) ==
  [id |-> f.id, name |-> f.name, categoryId |-> f.categoryId,
   addedAt |-> f.addedAt, lastReadAt |-> f.lastReadAt,
   currentPage |-> f.currentPage, totalPages |-> f.totalPages, size |-> f.size]

NoRet ==
  [op |-> "none", ok |-> TRUE, doc |-> NoDoc, cat |-> NullCat, arg |-> <<>>,
   page |-> 0, total |-> 0, val |-> <<>>, was |-> FALSE]

\* What a db.ts call that returns in this step looked like to its caller:
\* ok = resolved (FALSE = rejected), val = the value it resolved to, was =
\* whether the record it targets existed when its request ran.
Returned(tk, ok, val, was) ==
  [op |-> tk.call, ok |-> ok, doc |-> tk.doc, cat |-> tk.cat, arg |-> tk.rec,
   page |-> tk.page, total |-> tk.total, val |-> val, was |-> was]

\* An async call: the handler that runs (op), the db.ts function it is in
\* (call), where that function is suspended (pc), and the locals.
IdleTask ==
  [op |-> "idle", call |-> "none", pc |-> "idle", doc |-> NoDoc,
   cat |-> NullCat, acat |-> NullCat, batch |-> <<>>, rec |-> <<>>,
   page |-> 0, total |-> 0, cur |-> NoDoc, results |-> <<>>]

\* Date.now(): what it returned last, or later.
DateNow == {n \in {now, now + 1} : n <= MaxTime}

\* The first free slot for a new async call.
Free(t) ==
  /\ tasks[t].op = "idle"
  /\ \A u \in Tasks : u < t => tasks[u].op # "idle"

(* ------------------------ src/services/db.ts -------------------------- *)
getDB_NoMemo(st) == [p |-> "pending", n |-> st.n + 1]

\* getDB: st is <<dbPromise, number of openDB calls>>; openDB is called
\* only while dbPromise is null.
getDB(st) ==
  IF st.p = "null" THEN [p |-> "pending", n |-> st.n + 1] ELSE st

TxRunning_NoOrder(t, s) == \E i \in 1..Len(txQ[s]) : txQ[s][i] = t

\* IndexedDB runs the transactions of one object store one at a time, in
\* creation order: t's requests are served only while t's is the oldest.
TxRunning(t, s) == txQ[s] # <<>> /\ Head(txQ[s]) = t

\* The request a db.ts function issues first, and the store it is on.
FirstPc(call) ==
  CASE call = "addPdf" -> "put"
    [] call = "getAllPdfMetadata" -> "cursor"
    [] call = "getPdfById" -> "get"
    [] call = "updatePdfProgress" -> "get"
    [] call = "updatePdfCategory" -> "get"
    [] call = "deletePdf" -> "delete"
    [] call = "addCategory" -> "put"
    [] call = "getCategories" -> "getAll"
    [] call = "deleteCategory" -> "delete"

StoreOf(call, pc) ==
  IF \/ call \in {"addCategory", "getCategories"}
     \/ (call = "deleteCategory" /\ pc = "delete")
  THEN "categories" ELSE "files"

addPdf_FirstKey(fs, file) == Put(fs, 1, file)

addPdf_Truncated(fs, file) == Put(fs, file.id, [file EXCEPT !.blob = TxtF])

\* db.put('files', file): keyPath 'id'
addPdf(fs, file) == Put(fs, file.id, file)

getPdfById_Placeholder(fs, id) ==
  IF id \in DOMAIN fs THEN <<fs[id]>>
  ELSE <<[id |-> id, name |-> "", categoryId |-> NullCat, blob |-> TxtF,
          addedAt |-> 0, lastReadAt |-> NullTime, currentPage |-> 1,
          totalPages |-> 0, size |-> 0]>>

\* db.get('files', id): the record, or undefined (<<>>)
getPdfById(fs, id) == IF id \in DOMAIN fs THEN <<fs[id]>> ELSE <<>>

ProgressEdit_AlwaysTotal(file, page, totalPages, time) ==
  [file EXCEPT !.currentPage = page, !.lastReadAt = time, !.totalPages = totalPages]

ProgressEdit_KeepMax(file, page, totalPages, time) ==
  [file EXCEPT !.currentPage = IF page > @ THEN page ELSE @,
               !.lastReadAt = time,
               !.totalPages = IF totalPages # 0 THEN totalPages ELSE @]

\* updatePdfProgress, lines 76-78
ProgressEdit(file, page, totalPages, time) ==
  [file EXCEPT !.currentPage = page,
               !.lastReadAt = time,
               !.totalPages = IF totalPages # 0 THEN totalPages ELSE @]

CategoryEdit_Restamped(file, categoryId) ==
  [file EXCEPT !.categoryId = categoryId, !.addedAt = @ + 1]

\* updatePdfCategory, line 91; deleteCategory, line 123
CategoryEdit(file, categoryId) == [file EXCEPT !.categoryId = categoryId]

deletePdf_Keep(fs, id) == fs

\* db.delete('files', id)
deletePdf(fs, id) == Del(fs, id)

\* db.put('categories', category)
addCategory(cs, category) == Put(cs, category.id, category)

CatOrder == [i \in 1..MaxCats |-> "c" \o ToString(i)]

\* db.getAll('categories'): every record, in key order
getCategories(cs) ==
  LET present == SelectSeq(CatOrder, LAMBDA c : c \in DOMAIN cs)
  IN [i \in 1..Len(present) |-> cs[present[i]]]

NextKey_Once(keys, cur) ==
  IF cur # NoDoc \/ keys = {} THEN NoDoc
  ELSE CHOOSE k \in keys : \A j \in keys : k <= j

\* The key a cursor moves to from position cur: the least key above it.
NextKey(keys, cur) ==
  LET above == {k \in keys : k > cur}
  IN IF above = {} THEN NoDoc
     ELSE CHOOSE k \in above : \A j \in above : k <= j

\* fileStore.createIndex('by-category', 'categoryId'): the records the
\* index has an entry for.  IndexedDB indexes a record only when the value
\* at the key path is a valid key, and null is not one.
IndexByCategory(fs) == {d \in DOMAIN fs : fs[d].categoryId # NullCat}

\* fileStore.createIndex('by-last-read', 'lastReadAt')
IndexByLastRead(fs) == {d \in DOMAIN fs : fs[d].lastReadAt # NullTime}

\* index('by-category') restricted to IDBKeyRange.only(id)
ByCategory(fs, id) == {d \in IndexByCategory(fs) : fs[d].categoryId = id}

InsertDesc(s, x) ==
  LET k == Cardinality({i \in 1..Len(s) : s[i].addedAt >= x.addedAt})
  IN SubSeq(s, 1, k) \o <<x>> \o SubSeq(s, k + 1, Len(s))

SortByAddedDesc_KeyOrder(s) == s

RECURSIVE SortByAddedDesc(_)
\* results.sort((a, b) => b.addedAt - a.addedAt), a stable sort
SortByAddedDesc(s) ==
  IF s = <<>> THEN <<>>
  ELSE InsertDesc(SortByAddedDesc(SubSeq(s, 1, Len(s) - 1)), s[Len(s)])

(* --------------------- src/components/Sidebar.tsx -------------------- *)
trim_None(s) == s

RECURSIVE trim(_)
\* String.prototype.trim(): white space removed from both ends
trim(s) ==
  IF s = <<>> THEN s
  ELSE IF Head(s) = " " THEN trim(Tail(s))
  ELSE IF s[Len(s)] = " " THEN trim(SubSeq(s, 1, Len(s) - 1))
  ELSE s

(* --------------------------- src/App.tsx ------------------------------ *)
NewPdf_Measured(id, file, acat, time) ==
  [id |-> id, name |-> file.name,
   categoryId |-> IF acat # "all" /\ acat # "uncategorized" THEN acat ELSE NullCat,
   blob |-> file, addedAt |-> time, lastReadAt |-> NullTime,
   currentPage |-> 1, totalPages |-> 1, size |-> file.size]

\* handleFileUpload, lines 140-150
NewPdf(id, file, acat, time) ==
  [id |-> id, name |-> file.name,
   categoryId |-> IF acat # "all" /\ acat # "uncategorized" THEN acat ELSE NullCat,
   blob |-> file, addedAt |-> time, lastReadAt |-> NullTime,
   currentPage |-> 1, totalPages |-> 0, size |-> file.size]

RECURSIVE SkipNonPdf(_)
\* if (file.type !== 'application/pdf') continue;
SkipNonPdf(batch) ==
  IF batch = <<>> THEN <<>>
  ELSE IF Head(batch).type # "application/pdf" THEN SkipNonPdf(Tail(batch))
  ELSE batch

NumPdf(batch) ==
  Cardinality({i \in 1..Len(batch) : batch[i].type = "application/pdf"})

UiIds(list) == {list[i].id : i \in 1..Len(list)}

\* A db.ts function entered by task t on behalf of handler op.
Entering(op, call) ==
  [IdleTask EXCEPT !.op = op, !.call = call, !.pc = FirstPc(call)]

CategoryFilter_IdOnly(fs, acat) ==
  IF acat # "all" THEN SelectSeq(fs, LAMBDA f : f.categoryId = acat) ELSE fs

\* filteredFiles, lines 102-106: 1. Category Filter
CategoryFilter(fs, acat) ==
  IF acat = "uncategorized" THEN SelectSeq(fs, LAMBDA f : f.categoryId = NullCat)
  ELSE IF acat # "all" THEN SelectSeq(fs, LAMBDA f : f.categoryId = acat)
  ELSE fs

\* filteredFiles, lines 98-132, with the search box empty and the sort
\* order 'added-desc' (their initial values, lines 20-21)
filteredFiles(fs, acat) == SortByAddedDesc(CategoryFilter(fs, acat))

(* ------------- what a handler does when its db call returns ----------- *)
Idle(t) == [tasks EXCEPT ![t] = IdleTask]

\* handleFileUpload, lines 138-155: the rest of the for loop.  tk.acat is
\* the activeCategoryId the handler closed over when it was invoked.
UploadLoop(t, tk, batch, q) ==
  LET rest == SkipNonPdf(batch) IN
  IF rest = <<>>
  THEN /\ tasks' = Idle(t)
       /\ txQ' = q
       /\ uploading' = FALSE
       /\ UNCHANGED <<usedDocs, now>>
  ELSE \E id \in DocIds \ usedDocs, time \in DateNow :
       /\ now' = time
       /\ tasks' = [tasks EXCEPT ![t] =
            [Entering("upload", "addPdf") EXCEPT
               !.doc = id, !.acat = tk.acat, !.batch = Tail(rest),
               !.rec = <<NewPdf(id, rest[1], tk.acat, time)>>]]
       /\ txQ' = Enq(q, "files", t)
       /\ uploading' = TRUE
       /\ usedDocs' = usedDocs \cup {id}

\* Reader unmounts: its state goes, the debounce effect's cleanup runs.
Unmount ==
  /\ readerFile' = <<>>
  /\ activePage' = 0
  /\ numPages' = 0
  /\ timer' = FALSE
  /\ docLoaded' = FALSE

\* setReaderFile(fullPdf): Reader mounts (useState initial values, lines 18
\* and 24), or, when it is already mounted, only gets a new file prop.
ShowReader(f) ==
  /\ readerFile' = <<f>>
  /\ docLoaded' = FALSE
  /\ IF readerFile = <<>>
     THEN /\ numPages' = f.totalPages
          /\ activePage' = IF f.currentPage = 0 THEN 1 ELSE f.currentPage
          /\ timer' = TRUE
     ELSE /\ UNCHANGED <<numPages, activePage>>
          /\ timer' = IF f.id # readerFile[1].id THEN TRUE ELSE timer

\* handleCloseReader's db.getAllPdfMetadata(), also the tail of
\* handleDeleteCategory: the task goes on in getAllPdfMetadata.
ThenGetAll(t, tk, op, q) ==
  /\ tasks' = [tasks EXCEPT ![t] =
       [Entering(op, "getAllPdfMetadata") EXCEPT !.cat = tk.cat, !.acat = tk.acat]]
  /\ txQ' = Enq(q, "files", t)

InitPeer(t) == {u \in Tasks \ {t} : tasks[u].op \in {"initFiles", "initCats"}}

\* init, lines 80-93: Promise.all over the two loads, catch, finally.
InitJoin(t, tk, r, q) ==
  /\ txQ' = q
  /\ UNCHANGED <<activeCategoryId, uploading, readerVars, usedDocs, now>>
  /\ IF ~r.ok
     THEN /\ loading' = FALSE
          /\ tasks' = [u \in Tasks |->
               IF u = t \/ (u \in InitPeer(t) /\ tasks[u].pc = "join")
               THEN IdleTask ELSE tasks[u]]
          /\ UNCHANGED <<uiFiles, uiCategories>>
     ELSE IF ~loading
     THEN /\ tasks' = Idle(t)
          /\ UNCHANGED <<uiFiles, uiCategories, loading>>
     ELSE IF \E u \in InitPeer(t) : tasks[u].pc = "join"
     THEN LET u == CHOOSE u \in InitPeer(t) : tasks[u].pc = "join" IN
          /\ tasks' = [v \in Tasks |-> IF v \in {t, u} THEN IdleTask ELSE tasks[v]]
          /\ uiFiles' = IF tk.op = "initFiles" THEN r.val ELSE tasks[u].results
          /\ uiCategories' = IF tk.op = "initCats" THEN r.val ELSE tasks[u].results
          /\ loading' = FALSE
     ELSE /\ tasks' = [tasks EXCEPT ![t] = [tk EXCEPT !.pc = "join", !.results = r.val]]
          /\ UNCHANGED <<uiFiles, uiCategories, loading>>

\* Task t's db call returns r to its handler; q is the transaction queue
\* without the transaction that just finished.
Finish(t, r, q) ==
  LET tk == tasks[t]
      done == tasks' = Idle(t) /\ txQ' = q
  IN
  /\ ret' = r
  /\ CASE tk.op = "upload" ->
          \* lines 151-155; a rejected addPdf leaves the handler by exception
          IF r.ok
          THEN /\ uiFiles' = <<Metadata(tk.rec[1])>> \o uiFiles
               /\ UploadLoop(t, tk, tk.batch, q)
               /\ UNCHANGED <<uiCategories, activeCategoryId, loading, readerVars>>
          ELSE done /\ UNCHANGED <<uiVars, readerVars, usedDocs, now>>
       [] tk.op = "delPdf" ->
          \* deletePdfById, lines 180-183
          /\ done
          /\ uiFiles' = IF r.ok THEN SelectSeq(uiFiles, LAMBDA f : f.id # tk.doc)
                        ELSE uiFiles
          /\ UNCHANGED <<uiCategories, activeCategoryId, loading, uploading,
                         readerVars, usedDocs, now>>
       [] tk.op = "readerDel" ->
          \* handleReaderDelete, lines 192-197, into handleCloseReader
          IF r.ok
          THEN /\ uiFiles' = SelectSeq(uiFiles, LAMBDA f : f.id # tk.doc)
               /\ Unmount
               /\ ThenGetAll(t, tk, "close", q)
               /\ UNCHANGED <<uiCategories, activeCategoryId, loading, uploading,
                              usedDocs, now>>
          ELSE done /\ UNCHANGED <<uiVars, readerVars, usedDocs, now>>
       [] tk.op = "close" ->
          \* handleCloseReader, lines 176-177
          /\ done
          /\ uiFiles' = IF r.ok THEN r.val ELSE uiFiles
          /\ UNCHANGED <<uiCategories, activeCategoryId, loading, uploading,
                         readerVars, usedDocs, now>>
       [] tk.op = "open" ->
          \* handleOpenPdf, lines 160-169
          /\ done
          /\ IF r.ok /\ r.val # <<>> THEN ShowReader(r.val[1])
             ELSE UNCHANGED readerVars
          /\ UNCHANGED <<uiVars, usedDocs, now>>
       [] tk.op = "addCat" ->
          \* handleAddCategory, lines 201-202
          /\ done
          /\ uiCategories' = IF r.ok THEN Append(uiCategories, tk.rec[1])
                             ELSE uiCategories
          /\ UNCHANGED <<uiFiles, activeCategoryId, loading, uploading,
                         readerVars, usedDocs, now>>
       [] tk.op = "delCat" /\ tk.call = "deleteCategory" ->
          \* handleDeleteCategory, lines 207-209
          IF r.ok
          THEN /\ uiCategories' = SelectSeq(uiCategories, LAMBDA c : c.id # tk.cat)
               /\ ThenGetAll(t, tk, "delCat", q)
               /\ UNCHANGED <<uiFiles, activeCategoryId, loading, uploading,
                              readerVars, usedDocs, now>>
          ELSE done /\ UNCHANGED <<uiVars, readerVars, usedDocs, now>>
       [] tk.op = "delCat" /\ tk.call = "getAllPdfMetadata" ->
          \* handleDeleteCategory, lines 210-211
          /\ done
          /\ uiFiles' = IF r.ok THEN r.val ELSE uiFiles
          /\ activeCategoryId' = IF r.ok /\ tk.acat = tk.cat THEN "all"
                                 ELSE activeCategoryId
          /\ UNCHANGED <<uiCategories, loading, uploading, readerVars, usedDocs, now>>
       [] tk.op = "move" ->
          \* handleMoveToCategory (Reader.tsx lines 426-430)
          /\ done
          /\ uiFiles' = IF r.ok
                        THEN [i \in 1..Len(uiFiles) |->
                                IF uiFiles[i].id = tk.doc
                                THEN [uiFiles[i] EXCEPT !.categoryId = tk.cat]
                                ELSE uiFiles[i]]
                        ELSE uiFiles
          /\ UNCHANGED <<uiCategories, activeCategoryId, loading, uploading,
                         readerVars, usedDocs, now>>
       [] tk.op = "progress" ->
          \* Reader.tsx lines 63 and 83: the promise is dropped
          done /\ UNCHANGED <<uiVars, readerVars, usedDocs, now>>
       [] tk.op \in {"initFiles", "initCats"} ->
          InitJoin(t, tk, r, q)

\* Task t goes on inside its db.ts function: nothing returns to a handler.
Stay(newTasks, q) ==
  /\ tasks' = newTasks
  /\ txQ' = q
  /\ ret' = NoRet
  /\ UNCHANGED <<uiVars, readerVars, usedDocs, now>>

(* ----------------- the requests of src/services/db.ts ----------------- *)
\* `const db = await getDB()` at the head of every db.ts function, when
\* task t calls one: with the database open the function goes straight on
\* to create its transaction; while the open is pending it waits; after a
\* failed open the await throws.
Start(t, tk) ==
  LET st == getDB([p |-> dbPromise, n |-> openCalls]) IN
  /\ dbPromise' = st.p
  /\ openCalls' = st.n
  /\ UNCHANGED <<upgrades, schema, storeVars>>
  /\ IF st.p = "open"
     THEN /\ tasks' = [tasks EXCEPT ![t] = tk]
          /\ txQ' = Enq(txQ, StoreOf(tk.call, tk.pc), t)
          /\ ret' = NoRet
     ELSE IF st.p = "rejected"
     THEN /\ UNCHANGED <<tasks, txQ>>
          /\ ret' = Returned(tk, FALSE, <<>>, FALSE)
     ELSE /\ tasks' = [tasks EXCEPT ![t] = [tk EXCEPT !.pc = "db"]]
          /\ txQ' = txQ
          /\ ret' = NoRet

\* openDB's upgrade callback, lines 24-30, run by the engine once per
\* version change.
upgrade ==
  /\ dbPromise = "pending"
  /\ schema = {}
  /\ schema' = SCHEMA
  /\ upgrades' = upgrades + 1
  /\ ret' = NoRet
  /\ UNCHANGED <<dbPromise, openCalls, storeVars, txQ, usedDocs, usedCats, newCategoryName, now,
                 tasks, uiVars, readerVars>>

\* The open request succeeds: dbPromise resolves.
OpenSuccess ==
  /\ dbPromise = "pending"
  /\ schema = SCHEMA
  /\ dbPromise' = "open"
  /\ ret' = NoRet
  /\ UNCHANGED <<openCalls, upgrades, schema, storeVars, txQ, usedDocs, usedCats, newCategoryName,
                 now, tasks, uiVars, readerVars>>

\* The open request fails: dbPromise rejects, the version change is undone.
OpenError ==
  /\ dbPromise = "pending"
  /\ dbPromise' = "rejected"
  /\ schema' = {}
  /\ ret' = NoRet
  /\ UNCHANGED <<openCalls, upgrades, storeVars, txQ, usedDocs, usedCats, newCategoryName, now,
                 tasks, uiVars, readerVars>>

\* A caller that awaited the pending open goes on.
Resume(t) ==
  /\ tasks[t].pc = "db"
  /\ dbPromise = "open"
  /\ Stay([tasks EXCEPT ![t].pc = FirstPc(tasks[t].call)],
          Enq(txQ, StoreOf(tasks[t].call, FirstPc(tasks[t].call)), t))
  /\ UNCHANGED <<dbVars, storeVars, usedCats, newCategoryName>>

ResumeFailed(t) ==
  /\ tasks[t].pc = "db"
  /\ dbPromise = "rejected"
  /\ Finish(t, Returned(tasks[t], FALSE, <<>>, FALSE), txQ)
  /\ UNCHANGED <<dbVars, storeVars, usedCats, newCategoryName>>

Ready(t, call, pc) ==
  /\ tasks[t].call = call
  /\ tasks[t].pc = pc
  /\ TxRunning(t, StoreOf(call, pc))

\* addPdf, line 39
addPdf_put(t) ==
  LET tk == tasks[t] IN
  /\ Ready(t, "addPdf", "put")
  /\ files' = addPdf(files, tk.rec[1])
  /\ Finish(t, Returned(tk, TRUE, <<>>, tk.doc \in DOMAIN files), Deq(txQ, "files", t))
  /\ UNCHANGED <<dbVars, categories, undo, usedCats, newCategoryName>>

\* getAllPdfMetadata, lines 50-61: one cursor request per step
getAllPdfMetadata_cursor(t) ==
  LET tk == tasks[t]
      k == NextKey(DOMAIN files, tk.cur) IN
  /\ Ready(t, "getAllPdfMetadata", "cursor")
  /\ IF k # NoDoc
     THEN Stay([tasks EXCEPT ![t].cur = k,
                             ![t].results = Append(@, Metadata(files[k]))], txQ)
     ELSE Finish(t, Returned(tk, TRUE, SortByAddedDesc(tk.results), FALSE),
                 Deq(txQ, "files", t))
  /\ UNCHANGED <<dbVars, storeVars, usedCats, newCategoryName>>

\* getPdfById, line 66
getPdfById_get(t) ==
  LET tk == tasks[t] IN
  /\ Ready(t, "getPdfById", "get")
  /\ Finish(t, Returned(tk, TRUE, getPdfById(files, tk.doc), tk.doc \in DOMAIN files),
            Deq(txQ, "files", t))
  /\ UNCHANGED <<dbVars, storeVars, usedCats, newCategoryName>>

\* updatePdfProgress, lines 73-79 (store.get resolves) and 81 when the
\* record is missing
updatePdfProgress_get(t) ==
  LET tk == tasks[t] IN
  /\ Ready(t, "updatePdfProgress", "get")
  /\ IF tk.doc \in DOMAIN files
     THEN \E time \in DateNow :
          /\ tasks' = [tasks EXCEPT ![t].pc = "put",
               ![t].rec = <<ProgressEdit(files[tk.doc], tk.page, tk.total, time)>>]
          /\ now' = time
          /\ ret' = NoRet
          /\ UNCHANGED <<txQ, uiVars, readerVars, usedDocs>>
     ELSE Finish(t, Returned(tk, TRUE, <<>>, FALSE), Deq(txQ, "files", t))
  /\ UNCHANGED <<dbVars, storeVars, usedCats, newCategoryName>>

\* updatePdfProgress, lines 79-81: store.put and tx.done
updatePdfProgress_put(t) ==
  LET tk == tasks[t] IN
  /\ Ready(t, "updatePdfProgress", "put")
  /\ files' = Put(files, tk.rec[1].id, tk.rec[1])
  /\ Finish(t, Returned(tk, TRUE, <<>>, TRUE), Deq(txQ, "files", t))
  /\ UNCHANGED <<dbVars, categories, undo, usedCats, newCategoryName>>

updatePdfCategory_get_Upsert(t) ==
  LET tk == tasks[t]
      file == IF tk.doc \in DOMAIN files THEN files[tk.doc]
              ELSE NewPdf(tk.doc, PdfA, "all", now) IN
  /\ Ready(t, "updatePdfCategory", "get")
  /\ Stay([tasks EXCEPT ![t].pc = "put",
             ![t].rec = <<CategoryEdit(file, tk.cat)>>], txQ)
  /\ UNCHANGED <<dbVars, storeVars, usedCats, newCategoryName>>

\* updatePdfCategory, lines 88-92 and 94 when the record is missing
updatePdfCategory_get(t) ==
  LET tk == tasks[t] IN
  /\ Ready(t, "updatePdfCategory", "get")
  /\ IF tk.doc \in DOMAIN files
     THEN Stay([tasks EXCEPT ![t].pc = "put",
                  ![t].rec = <<CategoryEdit(files[tk.doc], tk.cat)>>], txQ)
     ELSE Finish(t, Returned(tk, TRUE, <<>>, FALSE), Deq(txQ, "files", t))
  /\ UNCHANGED <<dbVars, storeVars, usedCats, newCategoryName>>

\* updatePdfCategory, lines 92-94
updatePdfCategory_put(t) ==
  LET tk == tasks[t] IN
  /\ Ready(t, "updatePdfCategory", "put")
  /\ files' = Put(files, tk.rec[1].id, tk.rec[1])
  /\ Finish(t, Returned(tk, TRUE, <<>>, TRUE), Deq(txQ, "files", t))
  /\ UNCHANGED <<dbVars, categories, undo, usedCats, newCategoryName>>

\* deletePdf, line 99
deletePdf_delete(t) ==
  LET tk == tasks[t] IN
  /\ Ready(t, "deletePdf", "delete")
  /\ files' = deletePdf(files, tk.doc)
  /\ Finish(t, Returned(tk, TRUE, <<>>, tk.doc \in DOMAIN files), Deq(txQ, "files", t))
  /\ UNCHANGED <<dbVars, categories, undo, usedCats, newCategoryName>>

\* addCategory, line 105
addCategory_put(t) ==
  LET tk == tasks[t] IN
  /\ Ready(t, "addCategory", "put")
  /\ categories' = addCategory(categories, tk.rec[1])
  /\ Finish(t, Returned(tk, TRUE, <<>>, tk.cat \in DOMAIN categories),
            Deq(txQ, "categories", t))
  /\ UNCHANGED <<dbVars, files, undo, usedCats, newCategoryName>>

\* getCategories, line 110
getCategories_getAll(t) ==
  LET tk == tasks[t] IN
  /\ Ready(t, "getCategories", "getAll")
  /\ Finish(t, Returned(tk, TRUE, getCategories(categories), FALSE),
            Deq(txQ, "categories", t))
  /\ UNCHANGED <<dbVars, storeVars, usedCats, newCategoryName>>

\* deleteCategory, lines 115-119: the collection is deleted in its own
\* transaction; then the transaction on 'files' is created and the cursor
\* on by-category requested.
deleteCategory_delete(t) ==
  LET tk == tasks[t] IN
  /\ Ready(t, "deleteCategory", "delete")
  /\ categories' = Del(categories, tk.cat)
  /\ Stay([tasks EXCEPT ![t].pc = "cursor", ![t].cur = NoDoc],
          Enq(Deq(txQ, "categories", t), "files", t))
  /\ UNCHANGED <<dbVars, files, undo, usedCats, newCategoryName>>

\* deleteCategory, lines 119-125 and 127: the cursor opens or continues
deleteCategory_cursor(t) ==
  LET tk == tasks[t]
      k == NextKey(ByCategory(files, tk.cat), tk.cur) IN
  /\ Ready(t, "deleteCategory", "cursor")
  /\ IF k # NoDoc
     THEN /\ Stay([tasks EXCEPT ![t].pc = "update", ![t].cur = k,
                     ![t].rec = <<CategoryEdit(files[k], NullCat)>>], txQ)
          /\ undo' = IF undo = <<>> THEN <<files>> ELSE undo
     ELSE /\ Finish(t, Returned(tk, TRUE, <<>>, tk.cur # NoDoc), Deq(txQ, "files", t))
          /\ undo' = <<>>
  /\ UNCHANGED <<dbVars, files, categories, usedCats, newCategoryName>>

\* deleteCategory, line 124: cursor.update(update)
deleteCategory_update(t) ==
  LET tk == tasks[t] IN
  /\ Ready(t, "deleteCategory", "update")
  /\ files' = Put(files, tk.cur, tk.rec[1])
  /\ Stay([tasks EXCEPT ![t].pc = "cursor", ![t].rec = <<>>], txQ)
  /\ UNCHANGED <<dbVars, categories, undo, usedCats, newCategoryName>>

EngineFail_Swallowed(t) ==
  LET tk == tasks[t]
      s == StoreOf(tk.call, tk.pc) IN
  /\ tk.pc \in {"put", "delete", "update"}
  /\ TxRunning(t, s)
  /\ files' = IF tk.pc = "update" /\ undo # <<>> THEN undo[1] ELSE files
  /\ undo' = IF tk.pc = "update" THEN <<>> ELSE undo
  /\ Finish(t, Returned(tk, TRUE, <<>>, TRUE), Deq(txQ, s, t))
  /\ UNCHANGED <<dbVars, categories, usedCats, newCategoryName>>

EngineFail_NoAbort(t) ==
  LET tk == tasks[t]
      s == StoreOf(tk.call, tk.pc) IN
  /\ tk.pc \in {"put", "delete", "update"}
  /\ TxRunning(t, s)
  /\ files' = IF tk.pc = "put" /\ s = "files"
              THEN Put(files, tk.rec[1].id, [tk.rec[1] EXCEPT !.blob = TxtF])
              ELSE files
  /\ undo' = IF tk.pc = "update" THEN <<>> ELSE undo
  /\ Finish(t, Returned(tk, FALSE, <<>>, FALSE), Deq(txQ, s, t))
  /\ UNCHANGED <<dbVars, categories, usedCats, newCategoryName>>

\* The engine fails the write request task t is waiting for (quota, I/O):
\* the transaction aborts, what it wrote is undone, the call rejects.
EngineFail(t) ==
  LET tk == tasks[t]
      s == StoreOf(tk.call, tk.pc) IN
  /\ tk.pc \in {"put", "delete", "update"}
  /\ TxRunning(t, s)
  /\ files' = IF tk.pc = "update" /\ undo # <<>> THEN undo[1] ELSE files
  /\ undo' = IF tk.pc = "update" THEN <<>> ELSE undo
  /\ Finish(t, Returned(tk, FALSE, <<>>, FALSE), Deq(txQ, s, t))
  /\ UNCHANGED <<dbVars, categories, usedCats, newCategoryName>>

(* ------------------------- user and UI events ------------------------- *)
\* App's mount effect, lines 79-95: both loads are called before either
\* awaits, so getDB runs twice in a row.
Mount ==
  LET st1 == getDB([p |-> dbPromise, n |-> openCalls])
      st2 == getDB(st1) IN
  /\ loading
  /\ dbPromise = "null"
  /\ \A t \in Tasks : tasks[t].op = "idle"
  /\ dbPromise' = st2.p
  /\ openCalls' = st2.n
  /\ tasks' = [t \in Tasks |->
       IF t = 1 THEN [Entering("initFiles", "getAllPdfMetadata") EXCEPT !.pc = "db"]
       ELSE IF t = 2 THEN [Entering("initCats", "getCategories") EXCEPT !.pc = "db"]
       ELSE IdleTask]
  /\ ret' = NoRet
  /\ UNCHANGED <<upgrades, schema, storeVars, txQ, usedDocs, usedCats, newCategoryName, now,
                 uiVars, readerVars>>

Library == ~loading /\ readerFile = <<>>

\* handleFileUpload, lines 134-151, up to the first await
handleFileUpload(t, batch) ==
  LET rest == SkipNonPdf(batch) IN
  /\ Library
  /\ ~uploading
  /\ Free(t)
  /\ NumPdf(batch) <= Cardinality(DocIds \ usedDocs)
  /\ IF rest = <<>>
     THEN /\ ret' = NoRet
          /\ UNCHANGED <<dbVars, storeVars, txQ, tasks, usedDocs, uploading, now>>
     ELSE \E id \in DocIds \ usedDocs, time \in DateNow :
          /\ now' = time
          /\ Start(t, [Entering("upload", "addPdf") EXCEPT
                         !.doc = id, !.acat = activeCategoryId,
                         !.batch = Tail(rest),
                         !.rec = <<NewPdf(id, rest[1], activeCategoryId, time)>>])
          /\ usedDocs' = usedDocs \cup {id}
          /\ uploading' = TRUE
  /\ UNCHANGED <<uiFiles, uiCategories, activeCategoryId, loading, readerVars,
                 usedCats, newCategoryName>>

\* handleOpenPdf, line 161
handleOpenPdf(t, id) ==
  /\ Library
  /\ Free(t)
  /\ id \in UiIds(uiFiles)
  /\ Start(t, [Entering("open", "getPdfById") EXCEPT !.doc = id])
  /\ UNCHANGED <<uiVars, readerVars, usedDocs, usedCats, newCategoryName, now>>

\* handleDeletePdf, lines 185-190 (confirm accepted)
handleDeletePdf(t, id) ==
  /\ Library
  /\ Free(t)
  /\ id \in UiIds(uiFiles)
  /\ Start(t, [Entering("delPdf", "deletePdf") EXCEPT !.doc = id])
  /\ UNCHANGED <<uiVars, readerVars, usedDocs, usedCats, newCategoryName, now>>

\* handleAddCategory, lines 199-201
handleAddCategory(t, id, name) ==
  /\ Library
  /\ Free(t)
  /\ id \in CatIds \ usedCats
  /\ \E time \in DateNow :
       /\ now' = time
       /\ Start(t, [Entering("addCat", "addCategory") EXCEPT
                      !.cat = id,
                      !.rec = <<[id |-> id, name |-> name, createdAt |-> time]>>])
  /\ usedCats' = usedCats \cup {id}
  /\ UNCHANGED <<uiVars, readerVars, usedDocs>>

\* Sidebar's new-collection box: onChange, line 102
setNewCategoryName(s) ==
  /\ Library
  /\ s # newCategoryName
  /\ newCategoryName' = s
  /\ ret' = NoRet
  /\ UNCHANGED <<dbVars, storeVars, txQ, usedDocs, usedCats, now, tasks, uiVars,
                 readerVars>>

\* Sidebar's handleAddSubmit, lines 27-34
handleAddSubmit(t, id) ==
  /\ Library
  /\ IF trim(newCategoryName) # <<>>
     THEN /\ handleAddCategory(t, id, trim(newCategoryName))
          /\ newCategoryName' = <<>>
     ELSE /\ ret' = NoRet
          /\ UNCHANGED <<dbVars, storeVars, txQ, usedDocs, usedCats, now, tasks,
                         uiVars, readerVars, newCategoryName>>

\* The user types "W" into an empty box and submits, in one step.
onAddCategory(t, id) ==
  /\ newCategoryName = <<>>
  /\ handleAddCategory(t, id, trim(WorkName))
  /\ UNCHANGED newCategoryName

\* handleDeleteCategory, lines 205-207 (confirm accepted)
handleDeleteCategory(t, id) ==
  /\ Library
  /\ Free(t)
  /\ id \in UiIds(uiCategories)
  /\ Start(t, [Entering("delCat", "deleteCategory") EXCEPT
                 !.cat = id, !.acat = activeCategoryId])
  /\ UNCHANGED <<uiVars, readerVars, usedDocs, usedCats, newCategoryName, now>>

\* onSelectCategory, line 245
onSelectCategory(id) ==
  /\ Library
  /\ id \in {"all", "uncategorized"} \cup UiIds(uiCategories)
  /\ id # activeCategoryId
  /\ activeCategoryId' = id
  /\ ret' = NoRet
  /\ UNCHANGED <<dbVars, storeVars, txQ, usedDocs, usedCats, newCategoryName, now, tasks,
                 uiFiles, uiCategories, loading, uploading, readerVars>>

\* handleMoveToCategory (Reader.tsx lines 426-428)
handleMoveToCategory(t, pdfId, catId) ==
  /\ Library
  /\ Free(t)
  /\ pdfId \in UiIds(uiFiles)
  /\ catId \in UiIds(uiCategories) \cup {NullCat}
  /\ Start(t, [Entering("move", "updatePdfCategory") EXCEPT
                 !.doc = pdfId, !.cat = catId])
  /\ UNCHANGED <<uiVars, readerVars, usedDocs, usedCats, newCategoryName, now>>

\* handleCloseReader, lines 172-176
handleCloseReader(t) ==
  /\ readerFile # <<>>
  /\ Free(t)
  /\ Unmount
  /\ Start(t, Entering("close", "getAllPdfMetadata"))
  /\ UNCHANGED <<uiVars, usedDocs, usedCats, newCategoryName, now>>

\* Reader's handleDelete (confirm accepted), then handleReaderDelete,
\* lines 192-194
handleReaderDelete(t) ==
  /\ readerFile # <<>>
  /\ Free(t)
  /\ Start(t, [Entering("readerDel", "deletePdf") EXCEPT !.doc = readerFile[1].id])
  /\ UNCHANGED <<uiVars, readerVars, usedDocs, usedCats, newCategoryName, now>>

\* updatePdfProgress(file.id, activePage, numPages) as Reader calls it
SaveProgress(t, n) ==
  /\ Free(t)
  /\ Start(t, [Entering("progress", "updatePdfProgress") EXCEPT
                 !.doc = readerFile[1].id, !.page = activePage, !.total = n])

\* Reader's onDocumentLoadSuccess, lines 79-85
onDocumentLoadSuccess(t) ==
  LET n == PagesOf(readerFile[1].blob) IN
  /\ readerFile # <<>>
  /\ ~docLoaded
  /\ docLoaded' = TRUE
  /\ numPages' = n
  /\ timer' = IF n # numPages THEN TRUE ELSE timer
  /\ IF readerFile[1].totalPages # n
     THEN SaveProgress(t, n)
     ELSE /\ Free(t)
          /\ ret' = NoRet
          /\ UNCHANGED <<dbVars, storeVars, txQ, tasks>>
  /\ UNCHANGED <<readerFile, activePage, uiVars, usedDocs, usedCats, newCategoryName, now>>

\* Reader's IntersectionObserver callback, lines 40-46
setActivePage(p) ==
  /\ readerFile # <<>>
  /\ docLoaded
  /\ p \in 1..numPages
  /\ p # activePage
  /\ activePage' = p
  /\ timer' = TRUE
  /\ ret' = NoRet
  /\ UNCHANGED <<dbVars, storeVars, txQ, usedDocs, usedCats, newCategoryName, now, tasks, uiVars,
                 readerFile, numPages, docLoaded>>

\* Reader's debounce timer fires, lines 61-65
timerFires(t) ==
  /\ readerFile # <<>>
  /\ timer
  /\ timer' = FALSE
  /\ IF activePage > 0
     THEN SaveProgress(t, numPages)
     ELSE /\ Free(t)
          /\ ret' = NoRet
          /\ UNCHANGED <<dbVars, storeVars, txQ, tasks>>
  /\ UNCHANGED <<readerFile, activePage, numPages, docLoaded, uiVars, usedDocs,
                 usedCats, newCategoryName, now>>

(* --------------------------- specification ---------------------------- *)
Init ==
  /\ dbPromise = "null"
  /\ openCalls = 0
  /\ upgrades = 0
  /\ schema = {}
  /\ files = <<>>
  /\ categories = <<>>
  /\ txQ = [s \in STORES |-> <<>>]
  /\ undo = <<>>
  /\ usedDocs = {}
  /\ usedCats = {}
  /\ newCategoryName = <<>>
  /\ now = 1
  /\ tasks = [t \in Tasks |-> IdleTask]
  /\ ret = NoRet
  /\ uiFiles = <<>>
  /\ uiCategories = <<>>
  /\ activeCategoryId = "all"
  /\ loading = TRUE
  /\ uploading = FALSE
  /\ readerFile = <<>>
  /\ activePage = 0
  /\ numPages = 0
  /\ timer = FALSE
  /\ docLoaded = FALSE

\* Opening the database.
System ==
  \/ Mount
  \/ upgrade
  \/ OpenSuccess
  \/ \E t \in Tasks : Resume(t)

\* The library view of src/App.tsx: uploads, deletions, collections.
LibraryUI ==
  \/ \E t \in Tasks, b \in Batches : handleFileUpload(t, b)
  \/ \E t \in Tasks, d \in DocIds : handleDeletePdf(t, d)
  \/ \E t \in Tasks, c \in CatIds : onAddCategory(t, c)
  \/ \E t \in Tasks, c \in CatIds : handleDeleteCategory(t, c)
  \/ \E c \in CatIds \cup {"all", "uncategorized"} : onSelectCategory(c)

\* The requests of the db.ts functions the library view calls.
LibraryDb ==
  \/ \E t \in Tasks : addPdf_put(t)
  \/ \E t \in Tasks : getAllPdfMetadata_cursor(t)
  \/ \E t \in Tasks : deletePdf_delete(t)
  \/ \E t \in Tasks : addCategory_put(t)
  \/ \E t \in Tasks : getCategories_getAll(t)
  \/ \E t \in Tasks : deleteCategory_delete(t)
  \/ \E t \in Tasks : deleteCategory_cursor(t)
  \/ \E t \in Tasks : deleteCategory_update(t)

\* The move-to-collection handler and updatePdfCategory.
Move ==
  \/ \E t \in Tasks, d \in DocIds, c \in CatIds \cup {NullCat} :
       handleMoveToCategory(t, d, c)
  \/ \E t \in Tasks : updatePdfCategory_get(t)
  \/ \E t \in Tasks : updatePdfCategory_put(t)

\* Opening, reading and closing a document (src/components/Reader.tsx).
ReaderUI ==
  \/ \E t \in Tasks, d \in DocIds : handleOpenPdf(t, d)
  \/ \E t \in Tasks : handleCloseReader(t)
  \/ \E t \in Tasks : handleReaderDelete(t)
  \/ \E t \in Tasks : onDocumentLoadSuccess(t)
  \/ \E p \in 1..MaxPages : setActivePage(p)
  \/ \E t \in Tasks : timerFires(t)

ReaderDb ==
  \/ \E t \in Tasks : getPdfById_get(t)
  \/ \E t \in Tasks : updatePdfProgress_get(t)
  \/ \E t \in Tasks : updatePdfProgress_put(t)

\* The engine fails an open or a write.
Failures ==
  \/ OpenError
  \/ \E t \in Tasks : ResumeFailed(t)
  \/ \E t \in Tasks : EngineFail(t)

\* Everything.
Next == System \/ LibraryUI \/ LibraryDb \/ Move \/ ReaderUI \/ ReaderDb \/ Failures

Spec == Init /\ [][Next]_vars

\* The library view on an engine that never fails.
NextApp == System \/ LibraryUI \/ LibraryDb

SpecApp == Init /\ [][NextApp]_vars

\* The library view with the move handler, on an engine that may fail.
NextLibrary == System \/ LibraryUI \/ LibraryDb \/ Move \/ Failures

SpecLibrary == Init /\ [][NextLibrary]_vars

\* One document is uploaded, moved between collections, opened, read,
\* closed and deleted, on an engine that may fail.
OneUpload == \E t \in Tasks : usedDocs = {} /\ handleFileUpload(t, <<PdfA>>)

CollectionUI ==
  \/ \E t \in Tasks, c \in CatIds : onAddCategory(t, c)
  \/ \E t \in Tasks, c \in CatIds : handleDeleteCategory(t, c)

NextReader ==
  System \/ OneUpload \/ CollectionUI \/ LibraryDb \/ Move \/ ReaderUI
    \/ ReaderDb \/ Failures

SpecReader == Init /\ [][NextReader]_vars

\* The library view showing a loaded shelf: any shelf of up to MaxShelf
\* documents, each in one of MaxShelfCats collections or in none, and the
\* user picking a filter in the sidebar.
ShelfCats == {"c" \o ToString(i) : i \in 1..MaxShelfCats}

ShelfDoc(i, c) == [NewPdf(i, PdfA, "all", 1) EXCEPT !.categoryId = c]

InitShelf ==
  /\ dbPromise = "open"
  /\ openCalls = 1
  /\ upgrades = 1
  /\ schema = SCHEMA
  /\ \E n \in 0..MaxShelf : \E cat \in [1..n -> ShelfCats \cup {NullCat}] :
       /\ files = [i \in 1..n |-> ShelfDoc(i, cat[i])]
       /\ uiFiles = [i \in 1..n |-> Metadata(ShelfDoc(n + 1 - i, cat[n + 1 - i]))]
       /\ usedDocs = 1..n
  /\ categories = [c \in ShelfCats |-> [id |-> c, name |-> WorkName, createdAt |-> 1]]
  /\ uiCategories = [i \in 1..MaxShelfCats |-> categories["c" \o ToString(i)]]
  /\ usedCats = ShelfCats
  /\ newCategoryName = <<>>
  /\ txQ = [s \in STORES |-> <<>>]
  /\ undo = <<>>
  /\ now = 1
  /\ tasks = [t \in Tasks |-> IdleTask]
  /\ ret = NoRet
  /\ activeCategoryId = "all"
  /\ loading = FALSE
  /\ uploading = FALSE
  /\ readerFile = <<>>
  /\ activePage = 0
  /\ numPages = 0
  /\ timer = FALSE
  /\ docLoaded = FALSE

NextShelf == \E c \in ShelfCats \cup {"all", "uncategorized"} : onSelectCategory(c)

SpecShelf == InitShelf /\ [][NextShelf]_vars

\* The sidebar's collections on a library without documents: names are
\* typed, submitted, collections deleted, on an engine that may fail.
SidebarUI ==
  \/ \E s \in NameInputs : setNewCategoryName(s)
  \/ \E t \in Tasks, c \in CatIds : handleAddSubmit(t, c)
  \/ \E t \in Tasks, c \in CatIds : handleDeleteCategory(t, c)

SidebarDb ==
  \/ \E t \in Tasks : getAllPdfMetadata_cursor(t)
  \/ \E t \in Tasks : getCategories_getAll(t)
  \/ \E t \in Tasks : addCategory_put(t)
  \/ \E t \in Tasks : deleteCategory_delete(t)
  \/ \E t \in Tasks : deleteCategory_cursor(t)

NextSidebar == System \/ SidebarUI \/ SidebarDb \/ Failures

SpecSidebar == Init /\ [][NextSidebar]_vars

\* One document is uploaded, opened, read, closed and deleted from the
\* library or from the reader, on an engine that may fail.
DocumentUI ==
  \/ OneUpload
  \/ \E t \in Tasks, d \in DocIds : handleDeletePdf(t, d)

DocumentDb ==
  \/ \E t \in Tasks : addPdf_put(t)
  \/ \E t \in Tasks : getAllPdfMetadata_cursor(t)
  \/ \E t \in Tasks : getCategories_getAll(t)
  \/ \E t \in Tasks : deletePdf_delete(t)

NextDocument == System \/ DocumentUI \/ DocumentDb \/ ReaderUI \/ ReaderDb \/ Failures

SpecDocument == Init /\ [][NextDocument]_vars

\* Two books of different lengths are uploaded in one batch, opened, read
\* and closed, on an engine that never fails.
BooksUI ==
  \/ \E t \in Tasks : usedDocs = {} /\ handleFileUpload(t, <<PdfA, PdfB>>)
  \/ \E t \in Tasks, d \in DocIds : handleOpenPdf(t, d)
  \/ \E t \in Tasks : handleCloseReader(t)
  \/ \E t \in Tasks : onDocumentLoadSuccess(t)
  \/ \E p \in 1..MaxPages : setActivePage(p)
  \/ \E t \in Tasks : timerFires(t)

BooksDb ==
  \/ \E t \in Tasks : addPdf_put(t)
  \/ \E t \in Tasks : getAllPdfMetadata_cursor(t)
  \/ \E t \in Tasks : getCategories_getAll(t)

NextBooks == System \/ BooksUI \/ BooksDb \/ ReaderDb

SpecBooks == Init /\ [][NextBooks]_vars

\* The two books again, now also deleted from the library and moved to
\* "uncategorized" while other calls on them are in flight.
StaleUI == \E t \in Tasks, d \in DocIds : handleDeletePdf(t, d)

StaleDb == \E t \in Tasks : deletePdf_delete(t)

NextStale == NextBooks \/ StaleUI \/ StaleDb \/ Move

SpecStale == Init /\ [][NextStale]_vars

\* A loaded library of two books, the first in the one collection and the
\* second in it or in none: books are moved, opened, read and deleted and
\* the collection is deleted, on an engine that may fail a write.
LoadedDoc(i, c) ==
  [NewPdf(i, IF i = 1 THEN PdfA ELSE PdfB, "all", 1) EXCEPT !.categoryId = c]

InitLoaded ==
  /\ dbPromise = "open"
  /\ openCalls = 1
  /\ upgrades = 1
  /\ schema = SCHEMA
  /\ \E c \in {"c1", NullCat} :
       /\ files = [i \in 1..2 |-> LoadedDoc(i, IF i = 1 THEN "c1" ELSE c)]
       /\ uiFiles = [i \in 1..2 |-> Metadata(LoadedDoc(3 - i, IF i = 2 THEN "c1" ELSE c))]
  /\ usedDocs = 1..2
  /\ categories = [c \in {"c1"} |-> [id |-> c, name |-> WorkName, createdAt |-> 1]]
  /\ uiCategories = getCategories(categories)
  /\ usedCats = {"c1"}
  /\ newCategoryName = <<>>
  /\ txQ = [s \in STORES |-> <<>>]
  /\ undo = <<>>
  /\ now = 1
  /\ tasks = [t \in Tasks |-> IdleTask]
  /\ ret = NoRet
  /\ activeCategoryId = "all"
  /\ loading = FALSE
  /\ uploading = FALSE
  /\ readerFile = <<>>
  /\ activePage = 0
  /\ numPages = 0
  /\ timer = FALSE
  /\ docLoaded = FALSE

LoadedUI ==
  \/ \E t \in Tasks, c \in CatIds : handleDeleteCategory(t, c)
  \/ \E t \in Tasks, d \in DocIds : handleOpenPdf(t, d)
  \/ \E t \in Tasks : onDocumentLoadSuccess(t)
  \/ \E p \in 1..MaxPages : setActivePage(p)
  \/ \E t \in Tasks : timerFires(t)

LoadedDb ==
  \/ \E t \in Tasks : getAllPdfMetadata_cursor(t)
  \/ \E t \in Tasks : deleteCategory_delete(t)
  \/ \E t \in Tasks : deleteCategory_cursor(t)
  \/ \E t \in Tasks : deleteCategory_update(t)
  \/ \E t \in Tasks : EngineFail(t)

NextLoaded == LoadedUI \/ LoadedDb \/ Move \/ ReaderDb \/ StaleUI \/ StaleDb

SpecLoaded == InitLoaded /\ [][NextLoaded]_vars

\* The loaded library again, with only the handlers that list the store
\* or sweep it: the collection is deleted while books are opened and the
\* reader is closed.
SnapshotUI ==
  \/ \E t \in Tasks, c \in CatIds : handleDeleteCategory(t, c)
  \/ \E t \in Tasks, d \in DocIds : handleOpenPdf(t, d)
  \/ \E t \in Tasks : handleCloseReader(t)

SnapshotDb ==
  \/ \E t \in Tasks : getPdfById_get(t)
  \/ \E t \in Tasks : getAllPdfMetadata_cursor(t)
  \/ \E t \in Tasks : deleteCategory_delete(t)
  \/ \E t \in Tasks : deleteCategory_cursor(t)
  \/ \E t \in Tasks : deleteCategory_update(t)

NextSnapshot == SnapshotUI \/ SnapshotDb

SpecSnapshot == InitLoaded /\ [][NextSnapshot]_vars

(* ------------------------------ claims -------------------------------- *)
Quiescent == \A t \in Tasks : tasks[t].op = "idle"

Dangling == {d \in DOMAIN files :
               files[d].categoryId # NullCat /\ files[d].categoryId \notin DOMAIN categories}

\* C1: whenever every call has returned, each document's categoryId is null
\* or the id of a collection that is in the store.
C1_ReferentialIntegrity == Quiescent => Dangling = {}

\* The documents the library still lists under collection c although the
\* store has them uncategorized: the ones a sweep of c has just cleared.
JustSwept(c) ==
  {d \in DOMAIN files :
     /\ files[d].categoryId = NullCat
     /\ \E i \in 1..Len(uiFiles) : uiFiles[i].id = d /\ uiFiles[i].categoryId = c}

\* C2: in the step in which deleteCategory(c) resolves, c is not in
\* 'categories' nor in what getCategories would return, no document has
\* categoryId c, and, against the contents of 'files' when the sweep's
\* transaction began, exactly the documents that had categoryId c changed,
\* and only in categoryId, which is null.
C2_CascadeComplete ==
  [][(ret'.op = "deleteCategory" /\ ret'.ok) =>
       LET c == ret'.cat
           before == IF undo = <<>> THEN files ELSE undo[1]
           listed == getCategories(categories')
       IN /\ c \notin DOMAIN categories'
          /\ \A i \in 1..Len(listed) : listed[i].id # c
          /\ \A d \in DOMAIN files' : files'[d].categoryId # c
          /\ DOMAIN files' = DOMAIN before
          /\ \A d \in DOMAIN before :
               files'[d] = IF before[d].categoryId = c
                           THEN [before[d] EXCEPT !.categoryId = NullCat]
                           ELSE before[d]]_vars

\* C2 witness: deleteCategory(c) has just resolved after clearing two
\* documents.
C2_Witness ==
  /\ ret.op = "deleteCategory"
  /\ ret.ok
  /\ Cardinality(JustSwept(ret.cat)) >= 2

\* C3: whenever deleteCategory(c) finishes, resolved or rejected, with no
\* other deleteCategory(c) in flight, it is not the case that c is gone
\* while some document still has categoryId c.
C3_AllOrNothing ==
  (/\ ret.op = "deleteCategory"
   /\ \A t \in Tasks : ~(tasks[t].call = "deleteCategory" /\ tasks[t].cat = ret.cat))
  =>
    \/ ret.cat \in DOMAIN categories
    \/ \A d \in DOMAIN files : files[d].categoryId # ret.cat

\* C4: openDB is called at most once and the upgrade runs at most once;
\* every caller that waits, waits on the one pending open; every caller that
\* is past `await getDB()` holds an open database whose schema is complete.
C4_SingleInit ==
  /\ openCalls <= 1
  /\ upgrades <= 1
  /\ \A t \in Tasks :
       /\ tasks[t].pc = "db" => dbPromise # "null"
       /\ tasks[t].pc \notin {"idle", "db"} =>
            dbPromise = "open" /\ schema = SCHEMA /\ upgrades = 1

\* C4 witness: the two loads issued before the database was open both hold
\* it now, each with its first request queued, after one openDB call.
C4_Witness ==
  /\ tasks[1].op = "initFiles" /\ tasks[1].pc = "cursor"
  /\ tasks[2].op = "initCats" /\ tasks[2].pc = "getAll"
  /\ openCalls = 1
  /\ upgrades = 1

\* C5: a call that has read a record and is about to write it back holds a
\* copy that differs from the stored record only in the fields it sets (so
\* its put cannot undo another call's write), and when an update call
\* resolves for an existing record the store carries what it wrote.
C5_AtomicReadModifyWrite ==
  /\ \A t \in Tasks :
       LET tk == tasks[t] IN
       /\ (tk.call = "updatePdfProgress" /\ tk.pc = "put") =>
            /\ tk.doc \in DOMAIN files
            /\ tk.rec[1] = [files[tk.doc] EXCEPT
                              !.currentPage = tk.rec[1].currentPage,
                              !.lastReadAt = tk.rec[1].lastReadAt,
                              !.totalPages = tk.rec[1].totalPages]
       /\ (tk.call = "updatePdfCategory" /\ tk.pc = "put") =>
            /\ tk.doc \in DOMAIN files
            /\ tk.rec[1] = [files[tk.doc] EXCEPT !.categoryId = tk.cat]
       /\ (tk.call = "deleteCategory" /\ tk.pc = "update") =>
            /\ tk.cur \in DOMAIN files
            /\ tk.rec[1] = [files[tk.cur] EXCEPT !.categoryId = NullCat]
  /\ (ret.op = "updatePdfCategory" /\ ret.ok /\ ret.was) =>
       files[ret.doc].categoryId = ret.cat
  /\ (ret.op = "updatePdfProgress" /\ ret.ok /\ ret.was) =>
       /\ files[ret.doc].currentPage = ret.page
       /\ files[ret.doc].lastReadAt = ret.arg[1].lastReadAt

\* C5 witness: updatePdfProgress has read a document and not yet written it
\* while a deleteCategory that will sweep the same document is in flight.
C5_Witness ==
  \E t, u \in Tasks :
    /\ tasks[t].call = "updatePdfProgress" /\ tasks[t].pc = "put"
    /\ tasks[u].call = "deleteCategory" /\ tasks[u].pc = "cursor"
    /\ tasks[t].doc \in DOMAIN files
    /\ files[tasks[t].doc].categoryId = tasks[u].cat

\* C6: when addPdf(d) resolves the store holds exactly d under d.id, and
\* getPdfById(id) resolves to exactly the stored record; so a get that
\* follows a create with nothing written to d.id in between returns d.  A
\* record returned with no progress saved yet still has the uploaded file
\* as its payload and the name, size, page and total it was created with.
C6_RoundTrip ==
  /\ (ret.op = "addPdf" /\ ret.ok) =>
       ret.doc \in DOMAIN files /\ files[ret.doc] = ret.arg[1]
  /\ (ret.op = "getPdfById" /\ ret.ok) =>
       /\ ret.val = IF ret.doc \in DOMAIN files THEN <<files[ret.doc]>> ELSE <<>>
       /\ (ret.val # <<>> /\ ret.val[1].lastReadAt = NullTime) =>
            ret.val[1] = [NewPdf(ret.doc, PdfA, "all", ret.val[1].addedAt)
                            EXCEPT !.categoryId = ret.val[1].categoryId]

\* C6 witness: getPdfById has just returned a document as it was created.
C6_Witness ==
  /\ ret.op = "getPdfById"
  /\ ret.ok
  /\ ret.val # <<>>
  /\ ret.val[1].lastReadAt = NullTime
  /\ ret.val[1].blob = PdfA

MetaFields ==
  {"id", "name", "categoryId", "addedAt", "lastReadAt", "currentPage",
   "totalPages", "size"}

\* C7: what getAllPdfMetadata resolves to has one entry per stored
\* document, each with exactly the metadata fields, at their stored values,
\* and none with a blob.
C7_MetadataListing ==
  (ret.op = "getAllPdfMetadata" /\ ret.ok) =>
    /\ Len(ret.val) = Cardinality(DOMAIN files)
    /\ {ret.val[i].id : i \in 1..Len(ret.val)} = DOMAIN files
    /\ \A i \in 1..Len(ret.val) :
         /\ DOMAIN ret.val[i] = MetaFields
         /\ \A f \in MetaFields : ret.val[i][f] = files[ret.val[i].id][f]

\* C7 witness: a listing of two stored documents has just been returned.
C7_Witness ==
  /\ ret.op = "getAllPdfMetadata"
  /\ ret.ok
  /\ Len(ret.val) = 2
  /\ \E i \in 1..2 : ret.val[i].categoryId # NullCat

\* C8: in what getAllPdfMetadata resolves to, every entry's addedAt is at
\* least that of the entry after it.
C8_SortedByAddedDesc ==
  (ret.op = "getAllPdfMetadata" /\ ret.ok) =>
    \A i \in 1..(Len(ret.val) - 1) : ret.val[i].addedAt >= ret.val[i + 1].addedAt

\* C8 witness: a listing has just been returned in which the later-added
\* document comes first although its key comes last.
C8_Witness ==
  /\ ret.op = "getAllPdfMetadata"
  /\ ret.ok
  /\ Len(ret.val) = 2
  /\ ret.val[1].id > ret.val[2].id
  /\ ret.val[1].addedAt > ret.val[2].addedAt

\* C9: when updatePdfProgress(id, page) resolves for an existing document
\* the stored currentPage is page, whatever it was, and lastReadAt is the
\* Date.now() the call read; the call reads Date.now() in the step in which
\* it edits the record.
C9_LastWriteWins ==
  /\ [](  (ret.op = "updatePdfProgress" /\ ret.ok /\ ret.was) =>
            /\ files[ret.doc].currentPage = ret.page
            /\ files[ret.doc].lastReadAt = ret.arg[1].lastReadAt
            /\ files[ret.doc].lastReadAt # NullTime
            /\ files[ret.doc].lastReadAt <= now)
  /\ [][\A t \in Tasks :
          (/\ tasks[t].call = "updatePdfProgress"
           /\ tasks[t].pc = "get"
           /\ tasks'[t].pc = "put")
          => /\ tasks'[t].rec[1].lastReadAt = now'
             /\ tasks'[t].rec[1].currentPage = tasks[t].page]_vars

\* C9 witness: the document was opened when its stored page was 2, saved
\* by an earlier update, and an update to page 1 has just resolved, with a
\* later lastReadAt.
C9_Witness ==
  /\ ret.op = "updatePdfProgress"
  /\ ret.ok
  /\ ret.was
  /\ readerFile # <<>>
  /\ readerFile[1].id = ret.doc
  /\ readerFile[1].lastReadAt # NullTime
  /\ ret.page < readerFile[1].currentPage
  /\ files[ret.doc].currentPage = ret.page
  /\ files[ret.doc].lastReadAt > readerFile[1].lastReadAt

\* C10: with an engine that does not fail, every deletePdf(id) resolves,
\* whether or not a record was there, and when it does no record with that
\* id is in the store and getPdfById would return undefined.
C10_DeleteIdempotent ==
  ret.op = "deletePdf" =>
    /\ ret.ok
    /\ ret.doc \notin DOMAIN files
    /\ getPdfById(files, ret.doc) = <<>>

\* C10 witness: a deletePdf of an id that was already deleted has resolved.
C10_Witness ==
  /\ ret.op = "deletePdf"
  /\ ret.ok
  /\ ~ret.was
  /\ ret.doc \in usedDocs

\* C11: what the library shows for the selected filter (filteredFiles) is,
\* each document once, exactly the loaded documents whose categoryId is
\* the selected collection id, exactly those with categoryId null when
\* 'uncategorized' is selected, and every loaded document when 'all' is.
C11_CategoryFilter ==
  LET shown == filteredFiles(uiFiles, activeCategoryId)
      Matches(f) ==
        CASE activeCategoryId = "all" -> TRUE
          [] activeCategoryId = "uncategorized" -> f.categoryId = NullCat
          [] OTHER -> f.categoryId = activeCategoryId
  IN /\ {shown[i] : i \in 1..Len(shown)}
          = {uiFiles[i] : i \in {j \in 1..Len(uiFiles) : Matches(uiFiles[j])}}
     /\ Cardinality({shown[i].id : i \in 1..Len(shown)}) = Len(shown)

\* C11 witness: a shelf with a document in the selected collection, one in
\* another collection and one in none, filtered by 'uncategorized' or by a
\* collection id.
C11_Witness ==
  /\ activeCategoryId # "all"
  /\ Len(uiFiles) = 3
  /\ Len(filteredFiles(uiFiles, activeCategoryId)) = 1
  /\ \E i, j \in 1..3 :
       /\ uiFiles[i].categoryId = NullCat
       /\ uiFiles[j].categoryId \notin {NullCat, activeCategoryId, uiFiles[i].categoryId}

\* C12: when addPdf(d) has resolved, d is what getPdfById(d.id) returns, d
\* is among the records getAllPdfMetadata walks, and d has an entry in the
\* by-category index and in the by-last-read index.
C12_VisibleAfterCreate ==
  (ret.op = "addPdf" /\ ret.ok) =>
    /\ getPdfById(files, ret.doc) = ret.arg
    /\ ret.doc \in DOMAIN files
    /\ ret.doc \in IndexByCategory(files)
    /\ ret.doc \in IndexByLastRead(files)

\* C13: in every step in which addPdf(d) rejects, the store is left as it
\* was, with no record under d.id, and the document is not added to the
\* in-memory list.
C13_FailedCreateLeavesNothing ==
  [][(ret'.op = "addPdf" /\ ~ret'.ok) =>
       /\ files' = files
       /\ categories' = categories
       /\ ret'.doc \notin DOMAIN files'
       /\ uiFiles' = uiFiles]_vars

\* C13 witness: with the database open and a document stored, an addPdf of
\* another document has just rejected.
C13_Witness ==
  /\ ret.op = "addPdf"
  /\ ~ret.ok
  /\ dbPromise = "open"
  /\ files # <<>>

WritePcs == {"put", "delete", "update"}

\* C14: a db.ts call resolves only when what it was to write is in the
\* store; in a step in which a call rejects nothing is written (an aborted
\* sweep is rolled back) and the calls that moved in that step have ended;
\* and no call issues the same write twice: after a write request is
\* served or fails the call is not waiting on that request again, and the
\* sweep's cursor only moves to higher keys.
C14_WriteFailuresPropagate ==
  /\ [](ret.ok =>
          /\ ret.op = "addPdf" => getPdfById(files, ret.doc) = ret.arg
          /\ (ret.op \in {"updatePdfProgress", "updatePdfCategory"} /\ ret.was) =>
               getPdfById(files, ret.doc) = ret.arg
          /\ ret.op = "deletePdf" => ret.doc \notin DOMAIN files
          /\ ret.op = "addCategory" =>
               (ret.cat \in DOMAIN categories /\ categories[ret.cat] = ret.arg[1])
          /\ ret.op = "deleteCategory" =>
               /\ ret.cat \notin DOMAIN categories
               /\ \A d \in DOMAIN files : files[d].categoryId # ret.cat)
  /\ [][/\ (ret'.op # "none" /\ ~ret'.ok) =>
             /\ categories' = categories
             /\ \/ files' = files
                \/ ret'.op = "deleteCategory" /\ undo # <<>> /\ files' = undo[1]
             /\ \A t \in Tasks : tasks'[t] # tasks[t] => tasks'[t].call = "none"
        /\ \A t \in Tasks :
             (tasks[t].pc \in WritePcs /\ tasks'[t] # tasks[t]) =>
               ~(/\ tasks'[t].call = tasks[t].call
                 /\ tasks'[t].pc = tasks[t].pc
                 /\ tasks'[t].doc = tasks[t].doc
                 /\ tasks'[t].cur = tasks[t].cur)
        /\ \A t \in Tasks :
             (/\ tasks[t].call = "deleteCategory"
              /\ tasks[t].pc = "cursor"
              /\ tasks'[t].pc = "update")
             => tasks'[t].cur > tasks[t].cur]_vars

\* C14 witness: with the database open, updatePdfProgress has just
\* rejected on a failed put of a stored document.
C14_Witness ==
  /\ ret.op = "updatePdfProgress"
  /\ ~ret.ok
  /\ dbPromise = "open"
  /\ ret.doc \in DOMAIN files
  /\ ret.arg # <<>>
  /\ files[ret.doc] # ret.arg[1]

\* C15: when the addPdf of one file of an upload batch rejects on a failed
\* write and PDF files of the batch are still to come, handleFileUpload
\* goes on to store the next of them.
C15_BatchIsolatesFailures ==
  [][\A t \in Tasks :
       (/\ tasks[t].op = "upload"
        /\ tasks[t].pc = "put"
        /\ tasks'[t] # tasks[t]
        /\ ret'.op = "addPdf"
        /\ ~ret'.ok
        /\ SkipNonPdf(tasks[t].batch) # <<>>)
       => /\ tasks'[t].op = "upload"
          /\ tasks'[t].call = "addPdf"
          /\ tasks'[t].doc # tasks[t].doc]_vars

\* C16: when the database has failed to open, the application is not
\* showing the loaded library view (App has no other view to show an error
\* in than the one it shows while loading).
C16_OpenFailureSurfaced == dbPromise = "rejected" => ~Library

Blank(name) == \A i \in 1..Len(name) : name[i] = " "

\* C17: no collection with an empty or all-white-space name is stored, is
\* on its way to the store in an addCategory call, or is in the sidebar's
\* list; while such a name is in the new-collection box and nothing is in
\* flight, a submit changes nothing.
C17_NoBlankCollectionName ==
  /\ [](/\ \A c \in DOMAIN categories : ~Blank(categories[c].name)
        /\ \A t \in Tasks :
             tasks[t].call = "addCategory" => ~Blank(tasks[t].rec[1].name)
        /\ \A i \in 1..Len(uiCategories) : ~Blank(uiCategories[i].name))
  /\ [][(categories' # categories /\ DOMAIN categories \subseteq DOMAIN categories')
          => \E t \in Tasks :
               /\ tasks[t].call = "addCategory"
               /\ ~Blank(tasks[t].rec[1].name)
               /\ categories' = Put(categories, tasks[t].cat, tasks[t].rec[1])]_vars

\* C17 witness: an all-white-space name is in the box of the loaded
\* library, ready to be submitted, and no collection was ever written.
C17_Witness ==
  /\ Library
  /\ newCategoryName # <<>>
  /\ Blank(newCategoryName)
  /\ dbPromise = "open"
  /\ usedCats = {}
  /\ categories = <<>>
  /\ \A t \in Tasks : tasks[t].op = "idle"

Reads == {"getPdfById", "getAllPdfMetadata", "getCategories"}

\* C18: a read rejects only when the database failed to open; with the
\* database open getPdfById resolves to undefined exactly when no record
\* has the id and to the record otherwise, getAllPdfMetadata and
\* getCategories resolve to empty lists on empty stores, and handleOpenPdf
\* leaves the reader as it is when it gets undefined.
C18_AbsenceIsNotAnError ==
  /\ [](ret.op \in Reads =>
          /\ ret.ok <=> dbPromise = "open"
          /\ (ret.ok /\ ret.op = "getPdfById") =>
               /\ ret.doc \notin DOMAIN files => ret.val = <<>>
               /\ ret.doc \in DOMAIN files => ret.val = <<files[ret.doc]>>
          /\ (ret.ok /\ ret.op = "getAllPdfMetadata" /\ files = <<>>) => ret.val = <<>>
          /\ (ret.ok /\ ret.op = "getCategories" /\ categories = <<>>) => ret.val = <<>>)
  /\ [][(ret'.op = "getPdfById" /\ ret'.val = <<>>) =>
          UNCHANGED <<readerVars, uiVars, files, categories>>]_vars

\* C18 witness: getPdfById has just resolved to undefined for the id of a
\* document that was uploaded and then deleted.
C18_Witness ==
  /\ ret.op = "getPdfById"
  /\ ret.ok
  /\ ret.val = <<>>
  /\ ret.doc \in usedDocs
  /\ ret.doc \notin DOMAIN files

\* C19: every stored document with totalPages > 0 has currentPage no
\* greater than totalPages.
C19_PositionWithinTotal ==
  \A d \in DOMAIN files :
    files[d].totalPages > 0 => files[d].currentPage <= files[d].totalPages

\* C20: every record is stored under its own id; an id given to a new
\* document or collection was never given out before, so it is neither in
\* the store nor the id of a deleted record; and a step in which addPdf or
\* addCategory resolves adds one record and leaves every other record of
\* both stores as it was.
C20_IdsUniqueNeverReused ==
  /\ [](/\ \A d \in DOMAIN files : files[d].id = d
        /\ \A c \in DOMAIN categories : categories[c].id = c
        /\ DOMAIN files \subseteq usedDocs
        /\ DOMAIN categories \subseteq usedCats
        /\ \A t, u \in Tasks :
             (t # u /\ tasks[t].call = "addPdf" /\ tasks[u].call = "addPdf")
               => tasks[t].doc # tasks[u].doc)
  /\ [][/\ \A t \in Tasks :
             (tasks'[t].call = "addPdf" /\ tasks'[t] # tasks[t]) =>
               /\ tasks'[t].doc \notin usedDocs
               /\ tasks'[t].rec[1].id = tasks'[t].doc
        /\ \A t \in Tasks :
             (tasks'[t].call = "addCategory" /\ tasks'[t] # tasks[t]
              /\ tasks[t].call # "addCategory") =>
               /\ tasks'[t].cat \notin usedCats
               /\ tasks'[t].rec[1].id = tasks'[t].cat
        /\ (ret'.op = "addPdf" /\ ret'.ok) =>
             /\ ret'.doc \notin DOMAIN files
             /\ DOMAIN files' = DOMAIN files \cup {ret'.doc}
             /\ \A d \in DOMAIN files : files'[d] = files[d]
             /\ categories' = categories
        /\ (ret'.op = "addCategory" /\ ret'.ok) =>
             /\ ret'.cat \notin DOMAIN categories
             /\ DOMAIN categories' = DOMAIN categories \cup {ret'.cat}
             /\ \A c \in DOMAIN categories : categories'[c] = categories[c]
             /\ files' = files]_vars

\* C20 witness: a document has just been created after another document
\* was stored and deleted.
C20_Witness ==
  /\ ret.op = "addPdf"
  /\ ret.ok
  /\ \E d \in usedDocs \ {ret.doc} :
       /\ d \notin DOMAIN files
       /\ \A t \in Tasks : tasks[t].doc # d

\* C21: in the step in which updatePdfProgress(id, page, totalPages)
\* resolves for an existing document, the stored totalPages becomes the
\* one passed when that is non-zero and stays what it was when it is 0,
\* and in both cases currentPage becomes page and lastReadAt a time.
C21_TotalOnlyIfTruthy ==
  [][(ret'.op = "updatePdfProgress" /\ ret'.ok /\ ret'.was) =>
       /\ ret'.doc \in DOMAIN files
       /\ ret'.doc \in DOMAIN files'
       /\ files'[ret'.doc].totalPages =
            (IF ret'.total # 0 THEN ret'.total ELSE files[ret'.doc].totalPages)
       /\ files'[ret'.doc].currentPage = ret'.page
       /\ files'[ret'.doc].lastReadAt # NullTime]_vars

\* C21 witness: updatePdfProgress has just resolved for a call that passed
\* totalPages 0 and a page other than the stored one, on a document whose
\* stored totalPages is not 0.
C21_Witness ==
  /\ ret.op = "updatePdfProgress"
  /\ ret.ok
  /\ ret.was
  /\ ret.total = 0
  /\ ret.doc \in DOMAIN files
  /\ files[ret.doc].totalPages > 0
  /\ files[ret.doc].currentPage = ret.page

Updates == {"updatePdfProgress", "updatePdfCategory"}

\* C22: when updatePdfProgress or updatePdfCategory finds no record under
\* its id, the call resolves in that step and the step leaves both stores
\* as they were, with no record under the id.
C22_MissingIdIsNoOp ==
  [][/\ \A t \in Tasks :
          (/\ tasks[t].call \in Updates
           /\ tasks[t].pc = "get"
           /\ tasks[t].doc \notin DOMAIN files
           /\ tasks'[t] # tasks[t])
          => /\ ret'.op = tasks[t].call
             /\ ret'.ok
             /\ ~ret'.was
     /\ (ret'.op \in Updates /\ ret'.ok /\ ~ret'.was) =>
          /\ files' = files
          /\ categories' = categories
          /\ ret'.doc \notin DOMAIN files']_vars

\* C22 witness: an update has just resolved for the id of a deleted
\* document while the other document is stored.
C22_Witness ==
  /\ ret.op \in Updates
  /\ ret.ok
  /\ ~ret.was
  /\ ret.doc \in usedDocs
  /\ files # <<>>

Immutable == {"id", "name", "blob", "addedAt", "size"}

\* C23: no step changes the id, name, blob, addedAt or size of a stored
\* document; a step that changes a document at all is either the one in
\* which updatePdfProgress resolves for that document, changing nothing but
\* currentPage, lastReadAt and totalPages, or the one in which
\* updatePdfCategory resolves for it, or a step of a deleteCategory sweep
\* over its collection (an update or the rollback of an aborted sweep),
\* changing nothing but categoryId.
C23_FrameOfUpdates ==
  [][\A d \in DOMAIN files \cap DOMAIN files' :
       LET changed == {f \in DOMAIN files[d] : files'[d][f] # files[d][f]} IN
       /\ changed \cap Immutable = {}
       /\ changed # {} =>
            \/ /\ ret'.op = "updatePdfProgress"
               /\ ret'.doc = d
               /\ changed \subseteq {"currentPage", "lastReadAt", "totalPages"}
            \/ /\ ret'.op = "updatePdfCategory"
               /\ ret'.doc = d
               /\ changed = {"categoryId"}
            \/ /\ changed = {"categoryId"}
               /\ \E t \in Tasks :
                    /\ tasks[t].call = "deleteCategory"
                    /\ tasks[t].pc = "update"
                    /\ tasks'[t] # tasks[t]
                    /\ tasks[t].cat \in {files[d].categoryId, files'[d].categoryId}]_vars

\* C23 witness: the sweep of a deleted collection has just resolved after
\* uncategorizing one book, and the other book, which was read in the
\* meantime, has its progress saved and is otherwise as it was created.
C23_Witness ==
  /\ ret.op = "deleteCategory"
  /\ ret.ok
  /\ DOMAIN files = 1..2
  /\ \E d, e \in 1..2 :
       /\ d # e
       /\ files[d] = LoadedDoc(d, NullCat)
       /\ files[e].lastReadAt # NullTime
       /\ files[e].totalPages # 0
       /\ [files[e] EXCEPT !.lastReadAt = NullTime, !.totalPages = 0,
                           !.currentPage = 1, !.categoryId = NullCat]
            = LoadedDoc(e, NullCat)

C25_DeletedStaysDeleted ==
  [][/\ \A d \in DOMAIN files' \ DOMAIN files :
          \E t \in Tasks :
            /\ tasks[t].call = "addPdf"
            /\ tasks[t].pc = "put"
            /\ tasks[t].doc = d
            /\ tasks'[t] # tasks[t]
     /\ (ret'.op = "deletePdf" /\ ret'.ok) => ret'.doc \notin DOMAIN files']_vars

\* C25 witness: deletePdf has just resolved for a stored book while an
\* updatePdfProgress or updatePdfCategory for the same book is still in
\* flight, queued behind it.
C25_Witness ==
  /\ ret.op = "deletePdf"
  /\ ret.ok
  /\ ret.was
  /\ ret.doc \notin DOMAIN files
  /\ \E t \in Tasks :
       /\ tasks[t].call \in Updates
       /\ tasks[t].doc = ret.doc
       /\ tasks[t].pc = "get"

\* C26: when the reader is closed on a stored document, the reader's active
\* page is already that document's stored currentPage or an
\* updatePdfProgress carrying it is in flight, so that it is stored once
\* the pending work has finished.
C26_ProgressKeptOnClose ==
  [][(readerFile # <<>> /\ readerFile' = <<>> /\ readerFile[1].id \in DOMAIN files) =>
       \/ files[readerFile[1].id].currentPage = activePage
       \/ \E t \in Tasks :
            /\ tasks'[t].call = "updatePdfProgress"
            /\ tasks'[t].doc = readerFile[1].id
            /\ tasks'[t].page = activePage]_vars

\* C27: whenever every call has returned, the in-memory list has one entry
\* for each document in the store and no other entry, and each entry's
\* categoryId is the stored one.
C27_ListMatchesStore ==
  Quiescent =>
    /\ UiIds(uiFiles) = DOMAIN files
    /\ Len(uiFiles) = Cardinality(DOMAIN files)
    /\ \A i \in 1..Len(uiFiles) :
         uiFiles[i].id \in DOMAIN files =>
           uiFiles[i].categoryId = files[uiFiles[i].id].categoryId

\* C27 witness: every call has returned after a collection was created, a
\* book was uploaded, opened, read and closed, and the collection was
\* deleted; the list shows the book with its saved progress.
C27_Witness ==
  /\ Quiescent
  /\ files # <<>>
  /\ usedCats # {}
  /\ categories = <<>>
  /\ uiCategories = <<>>
  /\ readerFile = <<>>
  /\ Len(uiFiles) = 1
  /\ uiFiles[1].lastReadAt # NullTime
  /\ ret.op = "getAllPdfMetadata"

\* C28: whenever every call has returned, the selected filter is 'all',
\* 'uncategorized' or the id of a collection that is in the store.
C28_SelectionValid ==
  Quiescent => activeCategoryId \in {"all", "uncategorized"} \cup DOMAIN categories

\* C29: whenever getAllPdfMetadata resolves, its list has exactly one entry
\* per document of 'files', each the metadata of the record as stored, and
\* no deleteCategory sweep over 'files' is part-way through: every sweep in
\* flight has not yet touched a record, so of the documents of a collection
\* being deleted the list shows either all or none uncategorized.
C29_ListingIsSnapshot ==
  (ret.op = "getAllPdfMetadata" /\ ret.ok) =>
    /\ Len(ret.val) = Cardinality(DOMAIN files)
    /\ \A i \in 1..Len(ret.val) :
         /\ getPdfById(files, ret.val[i].id) # <<>>
         /\ ret.val[i] = Metadata(getPdfById(files, ret.val[i].id)[1])
    /\ undo = <<>>
    /\ \A t \in Tasks :
         (tasks[t].call = "deleteCategory" /\ tasks[t].pc \in {"cursor", "update"})
           => tasks[t].cur = NoDoc /\ tasks[t].pc = "cursor"

\* C29 witness: a listing requested by closing the reader has just
\* resolved with both books still in the collection, while a deleteCategory
\* of that collection has committed its delete and its sweep waits behind
\* the listing.
C29_Witness ==
  /\ ret.op = "getAllPdfMetadata"
  /\ ret.ok
  /\ Len(ret.val) = 2
  /\ \A i \in 1..Len(ret.val) : ret.val[i].categoryId = "c1"
  /\ "c1" \notin DOMAIN categories
  /\ \E t \in Tasks :
       /\ tasks[t].call = "deleteCategory"
       /\ tasks[t].cat = "c1"
       /\ tasks[t].pc = "cursor"

\* C30: the uploading flag is set only while handleFileUpload is working
\* through a batch; in particular, when every call has returned, with each
\* addPdf resolved or rejected, the flag is false again.
C30_UploadingOnlyDuringBatch ==
  uploading => \E t \in Tasks : tasks[t].op = "upload"

====
